---- MODULE Spec2Model ----
(***************************************************************************)
(* Request-processing pipeline of the GraphQL content API: rate limiting,  *)
(* identity resolution (createContext), the complexity gate, the response  *)
(* cache plugin, the resolvers and the token services.                     *)
(*                                                                         *)
(* Time is counted in seconds.  A signed JWT is modelled by the record of  *)
(* its claims together with the secret that signed it; verification checks *)
(* exactly what jsonwebtoken's verify checks for the options it is given.  *)
(***************************************************************************)
EXTENDS Integers, Sequences, FiniteSets, TLC

VARIABLES
  users,      \* User collection: id -> [state, role, password, refreshToken, revokedAt]
  posts,      \* Post collection: id -> [state, author, published]
  comments,   \* Comment collection: id -> [state, author, post]
  tokens,     \* tokens issued so far (what clients can present)
  cache,      \* redis: key -> [data, timestamp, ttl, setAt]
  now,        \* wall clock, seconds
  hits,       \* requests WatchedCaller sent to /graphql in the current window
  windowStart,\* start of the current rate-limit window
  last,       \* outcome of the most recently handled request
  document,   \* selection set of the operation handed to the complexity analysis
  estimate,   \* the last complexity computed and the one before the last edit
  accounts,   \* email and username of the documents of the User collection
  registering,\* the register mutations in flight: their input and position
  applied,    \* Migration collection: the versions recorded as applied
  lastRun     \* what the last run of the migration script did

vars ==
  <<users, posts, comments, tokens, cache, now, hits, windowStart, last,
    document, estimate, accounts, registering, applied, lastRun>>

-----------------------------------------------------------------------------
(* Bounds of the model *)

MaxTime == 900
MaxCacheTime == 450
MaxPosts == 3
MaxComments == 1
MaxOver == 2
MaxTokens == 6
MaxServiceTokens == 2
MaxFields == 5
MaxLimit == 3
MaxNesting == 2
MaxRegistrations == 2

-----------------------------------------------------------------------------
(* Program constants *)

AccessTokenExpiry == 900
RefreshTokenExpiry == 604800
PasswordResetExpiry == 3600
EmailVerificationExpiry == 86400
defaultTTL == 300
maxCacheSize == 1048576
CompressionThreshold == 1000
maximumComplexity == 500
maximumDepth == 10
scalarCost == 1
listFactor == 10
graphqlLimiterMax == 100
graphqlLimiterWindow == 60

NoExp == -1
AnyValue == "*"
NoUser == 0

ADMIN == "ADMIN"
USER == "USER"

(* the seeded accounts: admin, john_doe, jane_smith *)
SeedUsers == {1, 2, 3}
Passwords == {"pw0", "pw1"}

-----------------------------------------------------------------------------
(* Tokens *)

NoToken ==
  [gen |-> "none", svc |-> "none", userId |-> NoUser, type |-> "none",
   secret |-> "none", iss |-> "none", aud |-> "none", iat |-> 0, exp |-> NoExp]

(* a token no service of this program signed *)
ForgedToken(u) ==
  [gen |-> "access", svc |-> "attacker", userId |-> u, type |-> "access",
   secret |-> "attacker", iss |-> "graphql-api", aud |-> "graphql-client",
   iat |-> 0, exp |-> NoExp]

(* jsonwebtoken verify(token, secret, {issuer, audience}) *)
JwtVerify(t, secret, issuer, audience) ==
  /\ t.secret = secret
  /\ (t.exp = NoExp \/ now < t.exp)
  /\ (issuer # AnyValue => t.iss = issuer)
  /\ (audience # AnyValue => t.aud = audience)

JWTUtils_generateAccessToken(u) ==
  [gen |-> "access", svc |-> "JWTUtils", userId |-> u, type |-> "none",
   secret |-> "JWT_ACCESS_SECRET", iss |-> "graphql-api",
   aud |-> "graphql-client", iat |-> now, exp |-> now + AccessTokenExpiry]

JWTUtils_generateRefreshToken(u) ==
  [gen |-> "refresh", svc |-> "JWTUtils", userId |-> u, type |-> "none",
   secret |-> "JWT_REFRESH_SECRET", iss |-> "graphql-api",
   aud |-> "graphql-client", iat |-> now, exp |-> now + RefreshTokenExpiry]

JWTUtils_verifyAccessToken(t) ==
  JwtVerify(t, "JWT_ACCESS_SECRET", "graphql-api", "graphql-client")

JWTUtils_verifyRefreshToken(t) ==
  JwtVerify(t, "JWT_REFRESH_SECRET", "graphql-api", "graphql-client")

(* header values are the parts of authHeader.split(" ") *)
NoHeader == <<>>
Bearer(t) == <<"Bearer", t>>

(* an extraction that takes the last part of the header whatever its form *)
extractTokenFromHeader_AnyForm(authHeader) ==
  IF authHeader = <<>> THEN NoToken ELSE authHeader[Len(authHeader)]

extractTokenFromHeader(authHeader) ==
  IF authHeader = <<>> THEN NoToken
  ELSE IF Len(authHeader) # 2 \/ authHeader[1] # "Bearer" THEN NoToken
  ELSE authHeader[2]

TokenService_generateAccessToken(u) ==
  [gen |-> "access", svc |-> "TokenService", userId |-> u, type |-> "access",
   secret |-> "JWT_SECRET", iss |-> "apollo-api",
   aud |-> "http://localhost:3000", iat |-> now,
   exp |-> now + AccessTokenExpiry]

TokenService_generateRefreshToken(u) ==
  [gen |-> "refresh", svc |-> "TokenService", userId |-> u, type |-> "refresh",
   secret |-> "JWT_REFRESH_SECRET", iss |-> "apollo-api",
   aud |-> "http://localhost:3000", iat |-> now,
   exp |-> now + RefreshTokenExpiry]

TokenService_generatePasswordResetJWT(u) ==
  [gen |-> "password_reset", svc |-> "TokenService", userId |-> u,
   type |-> "password_reset", secret |-> "JWT_SECRET", iss |-> "apollo-api",
   aud |-> "none", iat |-> now, exp |-> now + PasswordResetExpiry]

TokenService_generateEmailVerificationJWT(u) ==
  [gen |-> "email_verification", svc |-> "TokenService", userId |-> u,
   type |-> "email_verification", secret |-> "JWT_SECRET",
   iss |-> "apollo-api", aud |-> "none", iat |-> now,
   exp |-> now + EmailVerificationExpiry]

TokenService_generateApiKey(u) ==
  [gen |-> "api_key", svc |-> "TokenService", userId |-> u,
   type |-> "api_key", secret |-> "JWT_SECRET", iss |-> "apollo-api",
   aud |-> "none", iat |-> now, exp |-> NoExp]

TokenService_verifyAccessToken(t) ==
  /\ JwtVerify(t, "JWT_SECRET", "apollo-api", "http://localhost:3000")
  /\ t.type = "access"

-----------------------------------------------------------------------------
(* The store (MongoDB collections behind the mongoose models) *)

UserIds == SeedUsers
PostIds == 1..MaxPosts
CommentIds == 1..MaxComments

(* bcrypt.hash / bcrypt.compare *)
Hash(password) == <<"bcrypt", password>>
(* a comparison that accepts every candidate *)
comparePassword_Always(candidate, hashed) == TRUE

comparePassword(candidate, hashed) == hashed = Hash(candidate)

NoPost == [state |-> "none", author |-> NoUser, published |-> FALSE]
NoComment == [state |-> "none", author |-> NoUser, post |-> 0]

SeedUser(u) ==
  [state |-> "live", role |-> IF u = 1 THEN ADMIN ELSE USER,
   password |-> Hash("pw0"), refreshToken |-> NoToken, revokedAt |-> NoExp]

(* seedPosts: the posts belong to the non-admin accounts; one is a draft *)
SeedPost(p) ==
  IF p = 1 THEN [state |-> "live", author |-> 2, published |-> TRUE]
  ELSE IF p = 2 THEN [state |-> "live", author |-> 2, published |-> FALSE]
  ELSE NoPost

User_findById(id) == id \in UserIds /\ users[id].state = "live"
Post_findById(id) == id \in PostIds /\ posts[id].state = "live"
Comment_findById(id) == id \in CommentIds /\ comments[id].state = "live"

(* the next unused ObjectId of a collection; ids are never reused *)
FreshId(coll, ids) ==
  IF \E i \in ids : coll[i].state = "none"
  THEN CHOOSE i \in ids : coll[i].state = "none"
                          /\ \A j \in ids : coll[j].state = "none" => i <= j
  ELSE 0

(* x.toString() of an ObjectId is its hex string; of a populated mongoose
   document it is the inspection of the whole document, never the bare id *)
ObjectIdToString(id) == <<"id", id>>
DocumentToString(id) == <<"doc", id>>

-----------------------------------------------------------------------------
(* Identity resolution *)

AnonymousContext == [present |-> TRUE, isAuthenticated |-> FALSE, user |-> NoUser]

createContext(authHeader) ==
  LET token == extractTokenFromHeader(authHeader)
  IN IF token = NoToken THEN AnonymousContext
     ELSE IF ~JWTUtils_verifyAccessToken(token) THEN AnonymousContext
     ELSE IF ~User_findById(token.userId) THEN AnonymousContext
     ELSE [present |-> TRUE, isAuthenticated |-> TRUE, user |-> token.userId]

(* requireAuth throws only for a missing context object and returns
   context.user, which is undefined (NoUser) for an anonymous context *)
requireAuth_throws(context) == ~context.present
requireAuth(context) == context.user

(* requireRole(user, roles) and requireOwnership(user, id) are handed the
   context object by the resolvers: context.role and context._id are undefined *)
ContextRole(context) == "undefined"
requireRole_throws(context, requiredRoles) ==
  requireAuth_throws(context) \/ ContextRole(context) \notin requiredRoles
requireAdmin_throws(context) == requireRole_throws(context, {"admin"})

(* outcome of requireOwnership(context, resourceUserId): reading
   context._id.toString() raises a TypeError for every context *)
requireOwnership(context, resourceUserId) ==
  IF requireAuth_throws(context) THEN "UNAUTHENTICATED"
  ELSE IF ContextRole(context) # "admin" THEN "INTERNAL_SERVER_ERROR"
  ELSE "none"

-----------------------------------------------------------------------------
(* Resolvers.  Each yields the store after the call, the tokens it issued,
   and either data or the extensions.code of the error it raised.  An
   uncaught TypeError surfaces as INTERNAL_SERVER_ERROR. *)

Null == <<"null">>

Keep(data, error) ==
  [users |-> users, posts |-> posts, comments |-> comments, issued |-> {},
   data |-> data, error |-> error]

Fail(error) == Keep(Null, error)

UserData(u) == <<"user", u, users[u].role>>
PostData(p) == <<"post", p, posts[p].published>>
CommentData(c) == <<"comment", c, comments[c].post>>

me(context) ==
  IF requireAuth_throws(context) THEN Fail("UNAUTHENTICATED")
  ELSE LET user == requireAuth(context)
       IN Keep(IF user = NoUser THEN Null ELSE UserData(user), "none")

usersQuery(context) ==
  IF requireAuth_throws(context) THEN Fail("UNAUTHENTICATED")
  ELSE Keep(<<"users", {u \in UserIds : users[u].state = "live"}>>, "none")

userQuery(id, context) ==
  IF requireAuth_throws(context) THEN Fail("UNAUTHENTICATED")
  ELSE IF ~User_findById(id) THEN Fail("USER_NOT_FOUND")
  ELSE Keep(UserData(id), "none")

myPosts(context) ==
  IF requireAuth_throws(context) THEN Fail("UNAUTHENTICATED")
  ELSE LET user == requireAuth(context)
       IN IF user = NoUser THEN Fail("INTERNAL_SERVER_ERROR")
          ELSE Keep(<<"posts", {p \in PostIds : posts[p].state = "live"
                                               /\ posts[p].author = user}>>,
                    "none")

(* the published filter of posts: the argument when the document gives
   one, whoever the caller is; otherwise published posts only, unless the
   caller asks for their own posts *)
PublishedFilter(published, authorId, context) ==
  IF published # "undefined" THEN published
  ELSE IF \/ ~context.isAuthenticated
          \/ authorId = NoUser
          \/ ObjectIdToString(context.user) # ObjectIdToString(authorId)
       THEN "true"
  ELSE "any"

(* posts: Post.find(filter) with the published and author filters; authorId
   NoUser stands for an absent argument *)
postsQuery(published, authorId, context) ==
  LET filter == PublishedFilter(published, authorId, context)
  IN Keep(<<"posts", {p \in PostIds :
                        /\ posts[p].state = "live"
                        /\ (filter = "true" => posts[p].published)
                        /\ (filter = "false" => ~posts[p].published)
                        /\ (authorId # NoUser => posts[p].author = authorId)}>>,
          "none")

(* post: the author is populated before the ownership comparison *)
postQuery(id, context) ==
  IF ~Post_findById(id) THEN Fail("POST_NOT_FOUND")
  ELSE IF ~posts[id].published THEN
    IF ~context.isAuthenticated THEN Fail("POST_NOT_FOUND")
    ELSE IF ~User_findById(posts[id].author) THEN Fail("INTERNAL_SERVER_ERROR")
    ELSE IF /\ ObjectIdToString(context.user) # DocumentToString(posts[id].author)
            /\ users[context.user].role # "ADMIN"
         THEN Fail("POST_NOT_FOUND")
    ELSE Keep(PostData(id), "none")
  ELSE Keep(PostData(id), "none")

CommentsOf(postId) ==
  {c \in CommentIds : comments[c].state = "live" /\ comments[c].post = postId}

commentsQuery(postId, context) ==
  IF ~Post_findById(postId) THEN Fail("POST_NOT_FOUND")
  ELSE IF ~posts[postId].published THEN
    IF ~context.isAuthenticated THEN Fail("POST_NOT_FOUND")
    ELSE IF /\ ObjectIdToString(context.user) # ObjectIdToString(posts[postId].author)
            /\ users[context.user].role # "ADMIN"
         THEN Fail("POST_NOT_FOUND")
    ELSE Keep(<<"comments", CommentsOf(postId)>>, "none")
  ELSE Keep(<<"comments", CommentsOf(postId)>>, "none")

(* a comment query that skips the check of the associated post *)
commentQuery_NoDraftCheck(id, context) ==
  IF ~Comment_findById(id) THEN Fail("COMMENT_NOT_FOUND")
  ELSE Keep(CommentData(id), "none")

(* comment: comment.post is populated; a comment whose post is gone has
   post = null and reading post.published raises a TypeError *)
commentQuery(id, context) ==
  IF ~Comment_findById(id) THEN Fail("COMMENT_NOT_FOUND")
  ELSE LET post == comments[id].post
       IN IF ~Post_findById(post) THEN Fail("INTERNAL_SERVER_ERROR")
          ELSE IF ~posts[post].published THEN
            IF ~context.isAuthenticated THEN Fail("COMMENT_NOT_FOUND")
            ELSE IF /\ ObjectIdToString(context.user) # ObjectIdToString(posts[post].author)
                    /\ users[context.user].role # "ADMIN"
                 THEN Fail("COMMENT_NOT_FOUND")
            ELSE Keep(CommentData(id), "none")
          ELSE Keep(CommentData(id), "none")

createPost(published, context) ==
  IF requireAuth_throws(context) THEN Fail("UNAUTHENTICATED")
  ELSE LET user == requireAuth(context)
           id == FreshId(posts, PostIds)
       IN IF user = NoUser THEN Fail("INTERNAL_SERVER_ERROR")
          ELSE IF id = 0 THEN Fail("BOUND")
          ELSE [Keep(<<"post", id, published>>, "none") EXCEPT
                  !.posts = [posts EXCEPT ![id] =
                     [state |-> "live", author |-> user, published |-> published]]]

(* updatePost, publishPost, unpublishPost: findById, requireOwnership, update *)
setPublished(id, published, context) ==
  IF ~Post_findById(id) THEN Fail("POST_NOT_FOUND")
  ELSE LET owner == requireOwnership(context, ObjectIdToString(posts[id].author))
       IN IF owner # "none" THEN Fail(owner)
          ELSE [Keep(<<"post", id, published>>, "none") EXCEPT
                  !.posts = [posts EXCEPT ![id].published = published]]

publishPost(id, context) == setPublished(id, TRUE, context)
unpublishPost(id, context) == setPublished(id, FALSE, context)
updatePost(id, published, context) == setPublished(id, published, context)

deletePost(id, context) ==
  IF ~Post_findById(id) THEN Fail("POST_NOT_FOUND")
  ELSE LET owner == requireOwnership(context, ObjectIdToString(posts[id].author))
       IN IF owner # "none" THEN Fail(owner)
          ELSE [Keep(<<"bool", TRUE>>, "none") EXCEPT
                  !.comments = [c \in CommentIds |->
                     IF comments[c].state = "live" /\ comments[c].post = id
                     THEN [NoComment EXCEPT !.state = "deleted"]
                     ELSE comments[c]],
                  !.posts = [posts EXCEPT ![id] =
                     [NoPost EXCEPT !.state = "deleted"]]]

createComment(postId, context) ==
  IF requireAuth_throws(context) THEN Fail("UNAUTHENTICATED")
  ELSE LET user == requireAuth(context)
           id == FreshId(comments, CommentIds)
       IN IF ~Post_findById(postId) THEN Fail("POST_NOT_FOUND")
          ELSE IF user = NoUser THEN Fail("INTERNAL_SERVER_ERROR")
          ELSE IF /\ ~posts[postId].published
                  /\ ObjectIdToString(user) # ObjectIdToString(posts[postId].author)
                  /\ users[user].role # "ADMIN"
               THEN Fail("POST_NOT_PUBLISHED")
          ELSE IF id = 0 THEN Fail("BOUND")
          ELSE [Keep(<<"comment", id, postId>>, "none") EXCEPT
                  !.comments = [comments EXCEPT ![id] =
                     [state |-> "live", author |-> user, post |-> postId]]]

updateComment(id, context) ==
  IF ~Comment_findById(id) THEN Fail("COMMENT_NOT_FOUND")
  ELSE LET owner == requireOwnership(context, ObjectIdToString(comments[id].author))
       IN IF owner # "none" THEN Fail(owner)
          ELSE Keep(CommentData(id), "none")

deleteComment(id, context) ==
  IF ~Comment_findById(id) THEN Fail("COMMENT_NOT_FOUND")
  ELSE IF requireAuth_throws(context) THEN Fail("UNAUTHENTICATED")
  ELSE LET user == requireAuth(context)
           post == comments[id].post
       IN IF user = NoUser THEN Fail("INTERNAL_SERVER_ERROR")
          ELSE IF /\ user # comments[id].author
                  /\ users[user].role # "ADMIN"
                  /\ (~Post_findById(post) \/ user # posts[post].author)
               THEN Fail("FORBIDDEN")
          ELSE [Keep(<<"bool", TRUE>>, "none") EXCEPT
                  !.comments = [comments EXCEPT ![id] =
                     [NoComment EXCEPT !.state = "deleted"]]]

(* login: the email of account u is modelled by u, an unknown email by NoUser *)
login(email, password) ==
  IF ~User_findById(email) THEN Fail("INVALID_CREDENTIALS")
  ELSE IF ~comparePassword(password, users[email].password)
       THEN Fail("INVALID_CREDENTIALS")
  ELSE LET accessToken == JWTUtils_generateAccessToken(email)
           refreshToken == JWTUtils_generateRefreshToken(email)
       IN [Keep(<<"auth", email, accessToken, refreshToken>>, "none") EXCEPT
             !.users = [users EXCEPT ![email].refreshToken = refreshToken],
             !.issued = {accessToken, refreshToken}]

(* a refresh that trusts every correctly signed, unexpired refresh token *)
refreshTokenMutation_SignatureOnly(refreshToken) ==
  IF ~JWTUtils_verifyRefreshToken(refreshToken) THEN Fail("INVALID_REFRESH_TOKEN")
  ELSE LET newAccessToken == JWTUtils_generateAccessToken(refreshToken.userId)
       IN [Keep(<<"refreshed", newAccessToken>>, "none") EXCEPT
             !.issued = {newAccessToken}]

refreshTokenMutation(refreshToken) ==
  IF ~JWTUtils_verifyRefreshToken(refreshToken) THEN Fail("INVALID_REFRESH_TOKEN")
  ELSE IF \/ ~User_findById(refreshToken.userId)
          \/ users[refreshToken.userId].refreshToken # refreshToken
       THEN Fail("INVALID_REFRESH_TOKEN")
  ELSE LET newAccessToken == JWTUtils_generateAccessToken(refreshToken.userId)
       IN [Keep(<<"refreshed", newAccessToken>>, "none") EXCEPT
             !.issued = {newAccessToken}]

(* logout: every exception, the TypeError for an undefined user included, is
   rethrown as LOGOUT_FAILED *)
logout(context) ==
  IF requireAuth_throws(context) THEN Fail("LOGOUT_FAILED")
  ELSE LET user == requireAuth(context)
       IN IF user = NoUser THEN Fail("LOGOUT_FAILED")
          ELSE [Keep(<<"bool", TRUE>>, "none") EXCEPT
                  !.users = [users EXCEPT ![user].refreshToken = NoToken,
                                          ![user].revokedAt = now]]

-----------------------------------------------------------------------------
(* Requests.  A request carries the caller's address, the Authorization
   header, and the operation: its type, the operationName sent with it, the
   name the document gives the operation, the root field with its arguments
   and the shape of the selection under the root field.  With it come what
   the environment decides while it is served: the length of the content the
   response carries (payload), whether that content is incompressible
   (random), and whether redis fails on the get or on the set (fault). *)

WatchedCaller == "10.0.0.1"
OtherCaller == "10.0.0.2"

Req(ip, header, kind, name, field, id, flag, pw, tok, shape) ==
  [ip |-> ip, header |-> header, kind |-> kind, operationName |-> name,
   docName |-> name, field |-> field, id |-> id, flag |-> flag, pw |-> pw,
   tok |-> tok, shape |-> shape, payload |-> 0, random |-> FALSE,
   fault |-> "none", published |-> "undefined"]

NoRequest ==
  Req("none", NoHeader, "none", "", "none", 0, FALSE, "", NoToken, "leaf")

(* deleteUser and updateUserRole: requireAdmin is handed the context object,
   whose role is undefined, so it throws for every caller; the value it would
   return is the context, whose _id is undefined as well *)
deleteUser(id, context) ==
  IF requireAdmin_throws(context) THEN Fail("UNAUTHENTICATED")
  ELSE Fail("INTERNAL_SERVER_ERROR")

updateUserRole(id, role, context) ==
  IF requireAdmin_throws(context) THEN Fail("UNAUTHENTICATED")
  ELSE Fail("INTERNAL_SERVER_ERROR")

QueryFields ==
  {"me", "users", "user", "myPosts", "posts", "post", "comments", "comment"}

Resolve(r, context) ==
  CASE r.field = "me" -> me(context)
    [] r.field = "users" -> usersQuery(context)
    [] r.field = "user" -> userQuery(r.id, context)
    [] r.field = "myPosts" -> myPosts(context)
    [] r.field = "posts" -> postsQuery(r.published, r.id, context)
    [] r.field = "post" -> postQuery(r.id, context)
    [] r.field = "comments" -> commentsQuery(r.id, context)
    [] r.field = "comment" -> commentQuery(r.id, context)
    [] r.field = "createPost" -> createPost(r.flag, context)
    [] r.field = "updatePost" -> updatePost(r.id, r.flag, context)
    [] r.field = "publishPost" -> publishPost(r.id, context)
    [] r.field = "unpublishPost" -> unpublishPost(r.id, context)
    [] r.field = "deletePost" -> deletePost(r.id, context)
    [] r.field = "createComment" -> createComment(r.id, context)
    [] r.field = "updateComment" -> updateComment(r.id, context)
    [] r.field = "deleteComment" -> deleteComment(r.id, context)
    [] r.field = "login" -> login(r.id, r.pw)
    [] r.field = "refreshToken" -> refreshTokenMutation(r.tok)
    [] r.field = "logout" -> logout(context)
    [] r.field = "deleteUser" -> deleteUser(r.id, context)
    [] r.field = "updateUserRole" ->
         updateUserRole(r.id, IF r.flag THEN ADMIN ELSE USER, context)

-----------------------------------------------------------------------------
(* Complexity gate.  A field is the sequence of the fields selected under
   it; a scalar leaf is the empty sequence. *)

RECURSIVE Chain(_)
Chain(n) == IF n = 0 THEN <<>> ELSE <<Chain(n - 1)>>

Fan(w, sub) == [i \in 1..w |-> sub]

(* the root field of the parsed document *)
Document(shape) ==
  CASE shape = "leaf" -> <<>>
    [] shape = "flat" -> Fan(2, <<>>)
    [] shape = "deep" -> Chain(maximumDepth + 2)
    [] shape = "wide" -> Fan(23, Fan(22, <<>>))
    [] shape = "deepwide" -> <<Chain(maximumDepth + 2), Fan(23, Fan(22, <<>>))>>

(* getComplexity with fieldExtensionsEstimator (no field of the schema has
   a complexity extension) and simpleEstimator: a field costs
   defaultComplexity plus the cost of its children *)
RECURSIVE FieldComplexity(_), SumComplexity(_, _)
FieldComplexity(field) == scalarCost + SumComplexity(field, Len(field))
SumComplexity(fields, n) ==
  IF n = 0 THEN 0
  ELSE FieldComplexity(fields[n]) + SumComplexity(fields, n - 1)

Shapes == {"leaf", "flat", "deep", "wide", "deepwide"}

(* the estimate of each document, computed once *)
ComplexityOf == [shape \in Shapes |-> FieldComplexity(Document(shape))]
getComplexity(shape) == ComplexityOf[shape]

(* graphql-depth-limit: a field without a selection set has depth 0 *)
RECURSIVE FieldDepth(_), MaxDepthOf(_, _)
FieldDepth(field) ==
  IF Len(field) = 0 THEN 0 ELSE 1 + MaxDepthOf(field, Len(field))
MaxDepthOf(fields, n) ==
  IF n = 0 THEN 0
  ELSE LET d == FieldDepth(fields[n])
           m == MaxDepthOf(fields, n - 1)
       IN IF d > m THEN d ELSE m

DepthOf == [shape \in Shapes |-> FieldDepth(Document(shape))]
queryDepth(shape) == DepthOf[shape]

(* didResolveOperation: the complexity is compared with the limit; the list
   depthValidationRules = [depthLimit(maximumDepth)] is built and then used
   by nothing, so the depth of the document decides nothing *)
didResolveOperation(r) ==
  LET complexity == getComplexity(r.shape)
  IN IF complexity > maximumComplexity
     THEN "QUERY_COMPLEXITY_LIMIT_EXCEEDED"
     ELSE "none"

-----------------------------------------------------------------------------
(* Complexity of an operation with arguments *)

(* a field of a selection set: its kind in the schema, its limit argument
   (NotGiven when the document does not pass one) and its sub-selection *)
NotGiven == 0
ScalarField == [kind |-> "scalar", limit |-> NotGiven, selectionSet |-> <<>>]
ObjectField(selectionSet) == [kind |-> "object", limit |-> NotGiven, selectionSet |-> selectionSet]
ListField(limit, selectionSet) == [kind |-> "list", limit |-> limit, selectionSet |-> selectionSet]

(* an estimator that does not answer *)
NotANumber == -1

(* fieldExtensionsEstimator answers with extensions.complexity of the schema
   field; no field of typeDefs carries that extension *)
fieldExtensionsEstimator(field, childComplexity) == NotANumber

(* an estimator that spreads the cost of the children over the list size *)
simpleEstimator_PerItem(field, childComplexity) == scalarCost + childComplexity \div (1 + field.limit)

(* simpleEstimator({defaultComplexity: scalarCost}): the arguments of the
   field are not read *)
simpleEstimator(field, childComplexity) == scalarCost + childComplexity

(* the estimators in the order given to getComplexity: the first number *)
estimators(field, childComplexity) ==
  LET byExtension == fieldExtensionsEstimator(field, childComplexity)
  IN IF byExtension # NotANumber
     THEN byExtension
     ELSE simpleEstimator(field, childComplexity)

(* complexity of the first n fields of a selection set *)
RECURSIVE nodeComplexity(_, _)
nodeComplexity(selectionSet, n) ==
  IF n = 0 THEN 0
  ELSE LET field == selectionSet[n]
           childComplexity == nodeComplexity(field.selectionSet, Len(field.selectionSet))
       IN estimators(field, childComplexity) + nodeComplexity(selectionSet, n - 1)

(* getComplexity({schema, query, variables, estimators}) *)
QueryComplexity(selectionSet) == nodeComplexity(selectionSet, Len(selectionSet))

RECURSIVE CountFields(_, _)
CountFields(selectionSet, n) ==
  IF n = 0 THEN 0
  ELSE 1 + CountFields(selectionSet[n].selectionSet, Len(selectionSet[n].selectionSet))
         + CountFields(selectionSet, n - 1)

(* the field reached by a non-empty path of positions *)
RECURSIVE NodeAt(_, _)
NodeAt(selectionSet, path) ==
  IF Len(path) = 1 THEN selectionSet[Head(path)]
  ELSE NodeAt(selectionSet[Head(path)].selectionSet, Tail(path))

(* paths to the fields of a selection set *)
RECURSIVE Paths(_)
Paths(selectionSet) ==
  UNION {{<<i>>} \cup {<<i>> \o p : p \in Paths(selectionSet[i].selectionSet)} :
           i \in DOMAIN selectionSet}

(* the document with a field added to the selection set of the field at
   path, or to the selection set of the operation when the path is empty *)
RECURSIVE AddAt(_, _, _)
AddAt(selectionSet, path, field) ==
  IF path = <<>> THEN Append(selectionSet, field)
  ELSE LET parent == selectionSet[Head(path)]
           inner == AddAt(parent.selectionSet, Tail(path), field)
       IN [selectionSet EXCEPT ![Head(path)] = [parent EXCEPT !.selectionSet = inner]]

(* the document with the limit argument of the field at path replaced *)
RECURSIVE LimitAt(_, _, _)
LimitAt(selectionSet, path, limit) ==
  LET parent == selectionSet[Head(path)]
  IN IF Len(path) = 1
     THEN [selectionSet EXCEPT ![Head(path)] = [parent EXCEPT !.limit = limit]]
     ELSE [selectionSet EXCEPT ![Head(path)] =
             [parent EXCEPT !.selectionSet = LimitAt(parent.selectionSet, Tail(path), limit)]]

NoEstimate == [edit |-> "none", path |-> <<>>, before |-> 0, after |-> 0]

-----------------------------------------------------------------------------
(* Response cache plugin *)

cachableOperations == {"query"}
(* config.skipCache as passed by the application *)
skipCacheList == {"me", "notifications"}

(* a skip list with nothing on it *)
skipCache_Nothing(operationName) == FALSE

skipCache(operationName) == operationName \in skipCacheList

(* sha256 of JSON.stringify({query, variables, operationName}) *)
generateCacheKey(r) ==
  [query |-> <<r.kind, r.docName, r.field, r.shape>>,
   variables |-> <<r.id, r.flag, r.pw, r.tok, r.published>>,
   operationName |-> r.operationName]

(* JSON.stringify(cacheData).length, the length of its gzip (text halves,
   incompressible content gains the gzip header) and of base64 of m bytes *)
SerializedLength(result) == 60 + 20 * Len(result.data) + result.bytes
GzipLength(n) == 20 + n \div 2
GzipSync(result) ==
  IF result.random THEN SerializedLength(result) + 20
  ELSE GzipLength(SerializedLength(result))
Base64Length(m) == 4 * ((m + 2) \div 3)

EmptyCache == [k \in {} |-> 0]

(* redis holds a key until its lifetime ends; Tick and TickLate drop it *)
RedisGet(key) == key \in DOMAIN cache

RedisSetex(key, seconds, entry) ==
  [k \in DOMAIN cache \cup {key} |->
     IF k = key THEN [entry EXCEPT !.expireAt = now + seconds] ELSE cache[k]]

NoEntry ==
  [data |-> [data |-> Null, error |-> "none", execAt |-> 0, bytes |-> 0,
            random |-> FALSE],
   timestamp |-> 0, ttl |-> 0, compressed |-> FALSE, expireAt |-> 0,
   corrupt |-> FALSE]

NoLookup ==
  [read |-> FALSE, hit |-> FALSE, entry |-> NoEntry, age |-> 0, found |-> FALSE]

(* a reading of stored values that never fails *)
Decodable_Always(entry) == TRUE

(* JSON.parse of the stored value, or gunzip and JSON.parse, succeeds *)
Decodable(entry) == ~entry.corrupt

(* a validity test that accepts an entry of any age *)
StillValid_Always(cacheData, age) == TRUE

(* "Check if cache is still valid" *)
StillValid(cacheData, age) == age < cacheData.ttl

(* responseForOperation: whether redis was asked (read), whether the answer
   is served (hit), the entry and its age, and whether redis held a value
   (found).  A failed get and a value that cannot be decoded raise inside the
   try block, whose catch falls through to return null. *)
responseForOperation(r) ==
  IF /\ r.docName # ""
     /\ "query" \in cachableOperations
     /\ ~skipCache(r.docName)
  THEN LET key == generateCacheKey(r)
       IN IF r.fault = "get" THEN [NoLookup EXCEPT !.read = TRUE]
          ELSE IF ~RedisGet(key) THEN [NoLookup EXCEPT !.read = TRUE]
          ELSE IF ~Decodable(cache[key])
            THEN [NoLookup EXCEPT !.read = TRUE, !.found = TRUE]
          ELSE LET cacheData == cache[key]
                   age == now - cacheData.timestamp
               IN [read |-> TRUE, hit |-> StillValid(cacheData, age),
                   entry |-> cacheData, age |-> age, found |-> TRUE]
  ELSE NoLookup

(* as Cacheable, without the test that the result carries no errors *)
Cacheable_IgnoresErrors(r, result) ==
  /\ r.operationName # ""
  /\ r.operationName \in cachableOperations
  /\ ~skipCache(r.operationName)

(* the condition under which willSendResponse builds a cache entry *)
Cacheable(r, result) ==
  /\ r.operationName # ""
  /\ result.error = "none"
  /\ r.operationName \in cachableOperations
  /\ ~skipCache(r.operationName)

(* a size test that lets every length through *)
WithinCeiling_Always(length) == TRUE

(* "Check size limit" *)
WithinCeiling(length) == length <= maxCacheSize

(* willSendResponse: [wrote, cache]; a failed setex raises inside the try
   block and the catch only logs *)
willSendResponse(r, result) ==
  IF Cacheable(r, result)
  THEN LET cacheKey == generateCacheKey(r)
           plain == SerializedLength(result)
           compress == plain > CompressionThreshold /\ GzipSync(result) < plain
           length == IF compress THEN Base64Length(GzipSync(result)) ELSE plain
           cacheData == [data |-> result, timestamp |-> now, ttl |-> defaultTTL,
                         compressed |-> compress, expireAt |-> 0,
                         corrupt |-> FALSE]
       IN IF WithinCeiling(length) /\ r.fault # "set"
          THEN [wrote |-> TRUE, cache |-> RedisSetex(cacheKey, defaultTTL, cacheData)]
          ELSE [wrote |-> FALSE, cache |-> cache]
  ELSE [wrote |-> FALSE, cache |-> cache]

-----------------------------------------------------------------------------
(* The /graphql route: app.use("/graphql", expressMiddleware(server, ...))
   behind cors and express.json.  graphqlLimiter is defined and mounted on
   no route. *)

GraphqlRoute == {"cors", "express.json", "expressMiddleware"}

(* express-rate-limit: over the budget when the caller's hits in the window
   have reached max *)
rateLimited(count) == "graphqlLimiter" \in GraphqlRoute /\ count >= graphqlLimiterMax

CountedHits(ip) == IF ip = WatchedCaller THEN hits ELSE 0

Outcome(r, status, contextRan, context, gate, lookup, resolverRan, wrote, result, storeChanged) ==
  [req |-> r, at |-> now, path |-> "graphql", status |-> status,
   overBudget |-> CountedHits(r.ip) >= graphqlLimiterMax,
   contextRan |-> contextRan, isAuthenticated |-> context.isAuthenticated,
   user |-> context.user, gate |-> gate, cacheRead |-> lookup.read,
   fromCache |-> lookup.hit,
   xcache |-> IF wrote THEN "MISS" ELSE IF lookup.hit THEN "HIT" ELSE "none",
   xage |-> IF lookup.hit THEN lookup.age ELSE 0,
   entryFound |-> lookup.found, entryAge |-> lookup.age,
   entryCorrupt |-> RedisGet(generateCacheKey(r))
                      /\ cache[generateCacheKey(r)].corrupt,
   overwrote |-> wrote /\ RedisGet(generateCacheKey(r)),
   resolverRan |-> resolverRan, cacheWrote |-> wrote,
   data |-> result.data, error |-> result.error, execAt |-> result.execAt,
   storeChanged |-> storeChanged,
   repeat |-> last.req = r /\ last.path = "graphql",
   prevAt |-> IF last.req = r THEN last.at ELSE 0,
   prevData |-> IF last.req = r THEN last.data ELSE Null,
   prevError |-> IF last.req = r THEN last.error ELSE "none"]

NoOutcome ==
  [req |-> NoRequest, at |-> 0, path |-> "none", status |-> 0,
   overBudget |-> FALSE, contextRan |-> FALSE, isAuthenticated |-> FALSE,
   user |-> NoUser, gate |-> "none", cacheRead |-> FALSE, fromCache |-> FALSE,
   xcache |-> "none", xage |-> 0, entryFound |-> FALSE, entryAge |-> 0,
   entryCorrupt |-> FALSE, overwrote |-> FALSE, resolverRan |-> FALSE,
   cacheWrote |-> FALSE,
   data |-> Null, error |-> "none", execAt |-> 0, storeChanged |-> FALSE,
   repeat |-> FALSE, prevAt |-> 0, prevData |-> Null, prevError |-> "none"]

(* One request to /graphql, from the route's middleware to the response:
   rate limiting (when mounted), createContext, didResolveOperation,
   responseForOperation, execution, willSendResponse. *)
Request(r) ==
  LET limited == rateLimited(CountedHits(r.ip))
      context == createContext(r.header)
      gate == didResolveOperation(r)
      lookup == IF gate = "none" THEN responseForOperation(r) ELSE NoLookup
      execute == gate = "none" /\ ~lookup.hit
      eff == IF execute THEN Resolve(r, context) ELSE Keep(Null, gate)
      result == IF lookup.hit THEN lookup.entry.data
                ELSE [data |-> eff.data, error |-> eff.error, execAt |-> now,
                      bytes |-> r.payload, random |-> r.random]
      write == willSendResponse(r, result)
  IN /\ CountedHits(r.ip) < graphqlLimiterMax + MaxOver
     /\ hits' = IF r.ip = WatchedCaller THEN hits + 1 ELSE hits
     /\ UNCHANGED <<now, windowStart, document, estimate, accounts, registering, applied, lastRun>>
     /\ IF limited
        THEN /\ UNCHANGED <<users, posts, comments, tokens, cache>>
             /\ last' = Outcome(r, 429, FALSE, AnonymousContext, "none", NoLookup,
                                FALSE, FALSE,
                                [data |-> Null, error |-> "RATE_LIMITED",
                                 execAt |-> now, bytes |-> 0,
                                 random |-> FALSE], FALSE)
        ELSE /\ eff.error # "BOUND"
             /\ users' = eff.users
             /\ posts' = eff.posts
             /\ comments' = eff.comments
             /\ tokens' = tokens \cup eff.issued
             /\ cache' = write.cache
             /\ last' = Outcome(r, 200, TRUE, context, gate, lookup, execute,
                                write.wrote, result,
                                <<eff.users, eff.posts, eff.comments>>
                                  # <<users, posts, comments>>)

(* AuthService.changePassword(userId, currentPassword, newPassword) *)
changePassword(userId, currentPassword, newPassword) ==
  IF ~User_findById(userId) THEN Fail("UNAUTHENTICATED")
  ELSE IF ~comparePassword(currentPassword, users[userId].password)
       THEN Fail("UNAUTHENTICATED")
  ELSE [Keep(<<"bool", TRUE>>, "none") EXCEPT
          !.users = [users EXCEPT ![userId].password = Hash(newPassword),
                                  ![userId].refreshToken = NoToken,
                                  ![userId].revokedAt = now]]

ServiceOutcome(path, r, accepted, user, data, error, storeChanged) ==
  [NoOutcome EXCEPT !.req = r, !.at = now, !.path = path,
                    !.isAuthenticated = accepted, !.user = user,
                    !.data = data, !.error = error, !.execAt = now,
                    !.storeChanged = storeChanged]

ChangePassword(u, cur, new) ==
  LET eff == changePassword(u, cur, new)
      r == [NoRequest EXCEPT !.field = "changePassword", !.id = u, !.pw = new]
  IN /\ users' = eff.users
     /\ last' = ServiceOutcome("AuthService.changePassword", r, FALSE, u,
                               eff.data, eff.error, eff.users # users)
     /\ UNCHANGED <<posts, comments, tokens, cache, now, hits, windowStart, document, estimate, accounts, registering, applied, lastRun>>

(* UserService.deleteUser(adminUserId, targetUserId): removes the account
   and leaves its posts and comments *)
UserService_deleteUser(adminUserId, targetUserId) ==
  IF ~User_findById(adminUserId) \/ users[adminUserId].role # ADMIN
  THEN Fail("FORBIDDEN")
  ELSE IF adminUserId = targetUserId THEN Fail("BAD_USER_INPUT")
  ELSE IF ~User_findById(targetUserId) THEN Fail("BAD_USER_INPUT")
  ELSE [Keep(<<"bool", TRUE>>, "none") EXCEPT
          !.users = [users EXCEPT ![targetUserId].state = "none"]]

DeleteUser(adminUserId, targetUserId) ==
  LET eff == UserService_deleteUser(adminUserId, targetUserId)
      r == [NoRequest EXCEPT !.field = "deleteUser", !.id = targetUserId]
  IN /\ users' = eff.users
     /\ last' = ServiceOutcome("UserService.deleteUser", r, FALSE, adminUserId,
                               eff.data, eff.error, eff.users # users)
     /\ UNCHANGED <<posts, comments, tokens, cache, now, hits, windowStart, document, estimate, accounts, registering, applied, lastRun>>

(* clearDatabase of the seed script: User.deleteMany({}) and
   Post.deleteMany({}); the Comment collection is not touched.  The script
   then inserts the accounts and posts again, under new ObjectIds *)
clearDatabase ==
  [Keep(Null, "none") EXCEPT
     !.users = [u \in UserIds |-> [users[u] EXCEPT !.state = "none"]],
     !.posts = [p \in PostIds |->
                  IF posts[p].state = "live"
                  THEN [NoPost EXCEPT !.state = "deleted"]
                  ELSE posts[p]]]

ClearDatabase ==
  LET eff == clearDatabase
  IN /\ users' = eff.users
     /\ posts' = eff.posts
     /\ last' = ServiceOutcome("seed.clearDatabase", NoRequest, FALSE, NoUser,
                               eff.data, eff.error,
                               <<eff.users, eff.posts>> # <<users, posts>>)
     /\ UNCHANGED <<comments, tokens, cache, now, hits, windowStart, document, estimate, accounts, registering, applied, lastRun>>

(* the token generators of TokenService that sign with JWT_SECRET or
   JWT_REFRESH_SECRET *)
ServiceToken(kind, u) ==
  CASE kind = "access" -> TokenService_generateAccessToken(u)
    [] kind = "refresh" -> TokenService_generateRefreshToken(u)
    [] kind = "password_reset" -> TokenService_generatePasswordResetJWT(u)
    [] kind = "email_verification" -> TokenService_generateEmailVerificationJWT(u)
    [] kind = "api_key" -> TokenService_generateApiKey(u)

ServiceTokenKinds ==
  {"access", "refresh", "password_reset", "email_verification", "api_key"}

(* a token generator of TokenService hands a token to a client *)
IssueToken(kind, u) ==
  LET t == ServiceToken(kind, u)
  IN /\ Cardinality({s \in tokens \cup {t} : s.svc = "TokenService"}) <= MaxServiceTokens
     /\ tokens' = tokens \cup {t}
     /\ UNCHANGED <<users, posts, comments, cache, now, hits, windowStart, last, document, estimate, accounts, registering, applied, lastRun>>

(* authMiddleware: the user it attaches to req.user, NoUser when none; the
   token is the header with "Bearer " removed, so a bare token is read too *)
authMiddleware(authHeader) ==
  IF authHeader = <<>> THEN NoUser
  ELSE IF Len(authHeader) > 2 \/ (Len(authHeader) = 2 /\ authHeader[1] # "Bearer")
       THEN NoUser
  ELSE LET token == authHeader[Len(authHeader)]
       IN IF /\ JwtVerify(token, "JWT_SECRET", AnyValue, AnyValue)
             /\ User_findById(token.userId)
          THEN token.userId
          ELSE NoUser

AuthMiddleware(authHeader) ==
  LET user == authMiddleware(authHeader)
      r == [NoRequest EXCEPT !.header = authHeader, !.field = "authMiddleware"]
  IN /\ last' = ServiceOutcome("authMiddleware", r, user # NoUser, user, Null,
                               "none", FALSE)
     /\ UNCHANGED <<users, posts, comments, tokens, cache, now, hits, windowStart, document, estimate, accounts, registering, applied, lastRun>>

(* a caller of TokenService.verifyAccessToken(token) *)
VerifyAccessToken(token) ==
  LET ok == TokenService_verifyAccessToken(token)
      r == [NoRequest EXCEPT !.header = Bearer(token),
                             !.field = "verifyAccessToken"]
  IN /\ last' = ServiceOutcome("TokenService.verifyAccessToken", r, ok,
                               IF ok THEN token.userId ELSE NoUser, Null,
                               IF ok THEN "none" ELSE "INVALID_ACCESS_TOKEN",
                               FALSE)
     /\ UNCHANGED <<users, posts, comments, tokens, cache, now, hits, windowStart, document, estimate, accounts, registering, applied, lastRun>>

(* time passes; redis drops the keys whose SETEX lifetime is over and the
   limiter's window rolls over *)
Tick(d, horizon) ==
  /\ now + d <= horizon
  /\ now' = now + d
  /\ cache' = [k \in {k \in DOMAIN cache : now + d < cache[k].expireAt} |-> cache[k]]
  /\ IF now + d - windowStart >= graphqlLimiterWindow
     THEN /\ hits' = 0
          /\ windowStart' = windowStart
               + graphqlLimiterWindow * ((now + d - windowStart) \div graphqlLimiterWindow)
     ELSE UNCHANGED <<hits, windowStart>>
  /\ UNCHANGED <<users, posts, comments, tokens, last, document, estimate, accounts, registering, applied, lastRun>>

(* time passes up to the instant an entry's lifetime ends: the entry's
   timestamp is taken before SETEX reaches redis, so at timestamp + ttl redis
   still holds the key *)
TickLate(d, horizon) ==
  /\ now + d <= horizon
  /\ \E k \in DOMAIN cache : cache[k].expireAt = now + d
  /\ now' = now + d
  /\ cache' = [k \in {k \in DOMAIN cache : now + d <= cache[k].expireAt} |-> cache[k]]
  /\ UNCHANGED <<users, posts, comments, tokens, hits, windowStart, last, document, estimate, accounts, registering, applied, lastRun>>

(* the value stored under a key is damaged: neither JSON.parse nor gunzip
   can read it *)
Corrupt(key) ==
  /\ key \in DOMAIN cache
  /\ ~cache[key].corrupt
  /\ cache' = [cache EXCEPT ![key].corrupt = TRUE]
  /\ UNCHANGED <<users, posts, comments, tokens, now, hits, windowStart, last, document, estimate, accounts, registering, applied, lastRun>>

(* CacheInvalidator.invalidateOperation deletes the keys matching
   prefix*operationName*; the keys are hex digests, which hold no operation
   name of this model, so only the empty name matches (every key) *)
invalidateOperation(operationName) ==
  IF operationName = "" THEN EmptyCache ELSE cache

InvalidateOperation(operationName) ==
  /\ cache' = invalidateOperation(operationName)
  /\ last' = ServiceOutcome("CacheInvalidator.invalidateOperation",
                            [NoRequest EXCEPT !.operationName = operationName],
                            FALSE, NoUser, Null, "none", FALSE)
  /\ UNCHANGED <<users, posts, comments, tokens, now, hits, windowStart, document, estimate, accounts, registering, applied, lastRun>>

(* CacheInvalidator.clearAll *)
ClearAll ==
  /\ cache' = EmptyCache
  /\ last' = ServiceOutcome("CacheInvalidator.clearAll", NoRequest, FALSE,
                            NoUser, Null, "none", FALSE)
  /\ UNCHANGED <<users, posts, comments, tokens, now, hits, windowStart, document, estimate, accounts, registering, applied, lastRun>>

storeVars == <<users, posts, comments, tokens, cache, now, hits, windowStart, last>>

-----------------------------------------------------------------------------
(* register.  The existence check and the save are separate awaits, so two
   register mutations interleave between them.  An email is its text in
   lower case together with whether the input wrote it with capitals. *)

Email(text, capitals) == [text |-> text, capitals |-> capitals]

(* the lowercase setter of the email path *)
ToLowerCase(email) == [email EXCEPT !.capitals = FALSE]

SeedAccounts ==
  << [email |-> Email("admin@example.com", FALSE), username |-> "admin"],
     [email |-> Email("john@example.com", FALSE), username |-> "john_doe"],
     [email |-> Email("jane@example.com", FALSE), username |-> "jane_smith"],
     [email |-> Email("dev@example.com", FALSE), username |-> "dev_user"] >>

Registrations == 1..MaxRegistrations

NoRegistration ==
  [pc |-> "idle", email |-> Email("", FALSE), username |-> "", passed |-> FALSE,
   error |-> "none"]

(* User.findOne({$or: [{email}, {username}]}): the filter is cast with the
   setters of the schema *)
findOne(email, username) ==
  \E i \in DOMAIN accounts :
    accounts[i].email = ToLowerCase(email) \/ accounts[i].username = username

(* a collection without unique indexes *)
DuplicateKey_NoIndex(doc) == FALSE

(* the unique indexes on email and username reject the insert (E11000) *)
DuplicateKey(doc) ==
  \E i \in DOMAIN accounts :
    accounts[i].email = doc.email \/ accounts[i].username = doc.username

(* register up to the existence check *)
RegisterCheck(p, email, username) ==
  /\ registering[p].pc = "idle"
  /\ registering' = [registering EXCEPT ![p] =
       IF findOne(email, username)
       THEN [pc |-> "done", email |-> email, username |-> username,
             passed |-> FALSE, error |-> "USER_ALREADY_EXISTS"]
       ELSE [pc |-> "checked", email |-> email, username |-> username,
             passed |-> TRUE, error |-> "none"]]
  /\ UNCHANGED <<storeVars, document, estimate, accounts, applied, lastRun>>

(* register from user.save() to the response: an insert the indexes reject is
   neither a GraphQLError nor a ValidationError and becomes
   REGISTRATION_FAILED; the second save only sets the refresh token *)
RegisterSave(p) ==
  LET doc == [email |-> ToLowerCase(registering[p].email),
              username |-> registering[p].username]
  IN /\ registering[p].pc = "checked"
     /\ IF DuplicateKey(doc)
        THEN /\ accounts' = accounts
             /\ registering' = [registering EXCEPT ![p].pc = "done",
                                                   ![p].error = "REGISTRATION_FAILED"]
        ELSE /\ accounts' = Append(accounts, doc)
             /\ registering' = [registering EXCEPT ![p].pc = "done"]
     /\ UNCHANGED <<storeVars, document, estimate, applied, lastRun>>

-----------------------------------------------------------------------------
(* The migration script.  Version "00n" is the number n; the versions of the
   script compare as their numbers do. *)

migrations == <<1, 2, 3, 4>>

(* targetVersion when the command line gives none *)
NoTarget == 0

NoFailure == [step |-> "none", version |-> NoTarget]

NoRun ==
  [direction |-> "none", targetVersion |-> NoTarget, before |-> {}, ran |-> <<>>,
   failed |-> FALSE]

(* the up branch from the i-th migration on: appliedMigrations is the list
   read when the run starts; acc holds the Migration collection, the
   migrations whose up() completed and whether the run was aborted *)
RECURSIVE UpLoop(_, _, _, _, _)
UpLoop(i, appliedMigrations, targetVersion, failing, acc) ==
  IF i > Len(migrations) THEN acc
  ELSE LET version == migrations[i]
       IN IF version \in appliedMigrations
          THEN UpLoop(i + 1, appliedMigrations, targetVersion, failing, acc)
          ELSE IF targetVersion # NoTarget /\ version > targetVersion THEN acc
          ELSE IF failing = [step |-> "up", version |-> version]
               THEN [acc EXCEPT !.failed = TRUE]
          ELSE IF failing = [step |-> "mark", version |-> version]
               THEN [acc EXCEPT !.ran = Append(@, version), !.failed = TRUE]
          ELSE UpLoop(i + 1, appliedMigrations, targetVersion, failing,
                      [acc EXCEPT !.applied = @ \cup {version},
                                  !.ran = Append(@, version)])

Reverse(s) == [i \in 1..Len(s) |-> s[Len(s) + 1 - i]]

(* a rollback list in the order of the script *)
migrationsToRollback_Ascending(appliedMigrations) == SelectSeq(migrations, LAMBDA v : v \in appliedMigrations)

(* migrations.filter(applied).reverse() *)
migrationsToRollback(appliedMigrations) == Reverse(SelectSeq(migrations, LAMBDA v : v \in appliedMigrations))

(* the down branch from the i-th migration of the rollback list on *)
RECURSIVE DownLoop(_, _, _, _, _)
DownLoop(i, rollback, targetVersion, failing, acc) ==
  IF i > Len(rollback) THEN acc
  ELSE LET version == rollback[i]
       IN IF targetVersion # NoTarget /\ version <= targetVersion THEN acc
          ELSE IF failing = [step |-> "down", version |-> version]
               THEN [acc EXCEPT !.failed = TRUE]
          ELSE IF failing = [step |-> "unmark", version |-> version]
               THEN [acc EXCEPT !.ran = Append(@, version), !.failed = TRUE]
          ELSE DownLoop(i + 1, rollback, targetVersion, failing,
                        [acc EXCEPT !.applied = @ \ {version},
                                    !.ran = Append(@, version)])

(* runMigrations(direction, targetVersion); failing names the call of the
   run that throws, after which the process exits *)
runMigrations(direction, targetVersion, failing) ==
  LET appliedMigrations == applied
      acc == [applied |-> applied, ran |-> <<>>, failed |-> FALSE]
  IN IF direction = "up"
     THEN UpLoop(1, appliedMigrations, targetVersion, failing, acc)
     ELSE DownLoop(1, migrationsToRollback(appliedMigrations), targetVersion,
                   failing, acc)

RunMigrations(direction, targetVersion, failing) ==
  LET run == runMigrations(direction, targetVersion, failing)
  IN /\ failing.step # "none" => run.failed
     /\ applied' = run.applied
     /\ lastRun' = [direction |-> direction, targetVersion |-> targetVersion,
                    before |-> applied, ran |-> run.ran, failed |-> run.failed]
     /\ UNCHANGED <<storeVars, document, estimate, accounts, registering>>

-----------------------------------------------------------------------------
(* Specifications *)

InitStore ==
  /\ users = [u \in UserIds |-> SeedUser(u)]
  /\ posts = [p \in PostIds |-> SeedPost(p)]
  /\ comments = [c \in CommentIds |-> NoComment]
  /\ tokens = {}
  /\ cache = EmptyCache
  /\ now = 0
  /\ hits = 0
  /\ windowStart = 0
  /\ last = NoOutcome

InitScripts ==
  /\ accounts = SeedAccounts
  /\ registering = [p \in Registrations |-> NoRegistration]
  /\ applied = {}
  /\ lastRun = NoRun

Init ==
  /\ InitStore
  /\ InitScripts
  /\ document = <<ScalarField>>
  /\ estimate = NoEstimate

AccessTokens == {t \in tokens : t.gen = "access" /\ t.svc = "JWTUtils"}
BearerHeaders == {Bearer(t) : t \in AccessTokens}

Issues(r) ==
  r.field \in {"login", "refreshToken"} =>
    Cardinality(tokens \cup Resolve(r, AnonymousContext).issued) <= MaxTokens

(* cache and gate: named and unnamed reads, mutations named "query", and
   documents that are deep, wide or both *)
CacheRequests ==
  {Req(OtherCaller, NoHeader, "query", n, "post", 1, FALSE, "", NoToken, "flat") :
     n \in {"query", "GetPost", ""}}
  \cup {Req(OtherCaller, NoHeader, "query", "query", "post", 1, FALSE, "", NoToken, sh) :
     sh \in {"deep", "wide", "deepwide"}}
  \cup {Req(OtherCaller, NoHeader, "mutation", "query", "login", 2, FALSE, "pw0",
            NoToken, "flat")}

CacheStep == \E r \in CacheRequests : Issues(r) /\ Request(r)
CacheTick == Tick(150, MaxCacheTime)
NextCache == CacheStep \/ CacheTick
SpecCache == Init /\ [][NextCache]_vars

(* resolvers and the store: unnamed operations, which the cache plugin
   leaves alone, sent anonymously or with an access token from a login *)
StoreHeaders == {NoHeader} \cup BearerHeaders
WriterHeaders == {NoHeader} \cup {Bearer(t) : t \in {a \in AccessTokens : a.userId = 2}}

StoreReq(h, kind, field, id, flag, pw) ==
  Req(OtherCaller, h, kind, "", field, id, flag, pw, NoToken, "flat")

StoreRequests ==
  {StoreReq(NoHeader, "mutation", "login", u, FALSE, "pw0") : u \in UserIds}
  \cup {StoreReq(NoHeader, "mutation", "logout", 0, FALSE, "")}
  \cup {StoreReq(h, "query", "me", 0, FALSE, "") : h \in StoreHeaders}
  \cup {StoreReq(h, "query", f, 0, FALSE, "") :
          h \in WriterHeaders, f \in {"users", "myPosts"}}
  \cup {StoreReq(NoHeader, "query", "user", 2, FALSE, "")}
  \cup {StoreReq(h, "query", f, p, FALSE, "") :
          h \in StoreHeaders, f \in {"post", "comments"}, p \in PostIds}
  \cup {StoreReq(h, "query", "comment", c, FALSE, "") :
          h \in StoreHeaders, c \in CommentIds}
  \cup {StoreReq(h, "mutation", "createPost", 0, b, "") :
          h \in WriterHeaders, b \in {FALSE}}
  \cup {StoreReq(h, "mutation", "createComment", p, FALSE, "") :
          h \in WriterHeaders, p \in {2}}
  \cup {StoreReq(h, "mutation", "deleteComment", c, FALSE, "") :
          h \in WriterHeaders, c \in CommentIds}

StoreStep == \E r \in StoreRequests : Issues(r) /\ Request(r)
NextStore == StoreStep
SpecStore == Init /\ [][NextStore]_vars

(* sessions and tokens: one account logs in, reads me with whatever token a
   client holds, logs out or changes its password, while the token service
   issues tokens and the other verification paths are asked about them *)
AllHeaders == {NoHeader} \cup {Bearer(t) : t \in tokens}

AuthReq(h, kind, field, id, pw) ==
  Req(OtherCaller, h, kind, "", field, id, FALSE, pw, NoToken, "flat")

AuthRequests ==
  {AuthReq(h, "query", "me", 0, "") : h \in AllHeaders}
  \cup {AuthReq(h, "mutation", "logout", 0, "") : h \in BearerHeaders}
  \cup {r \in {AuthReq(NoHeader, "mutation", "login", 2, "pw0")} : now = 0}

AuthStep == \E r \in AuthRequests : Issues(r) /\ Request(r)
AuthChangePassword == ChangePassword(2, "pw0", "pw1")
AuthIssue == \E kind \in ServiceTokenKinds : now = 0 /\ IssueToken(kind, 2)
AuthMiddlewareStep == \E h \in AllHeaders : AuthMiddleware(h)
AuthVerify == \E t \in tokens : VerifyAccessToken(t)
AuthTick == Tick(450, MaxTime)

NextAuth ==
  \/ AuthStep
  \/ AuthChangePassword
  \/ AuthIssue
  \/ AuthMiddlewareStep
  \/ AuthVerify
  \/ AuthTick

SpecAuth == Init /\ [][NextAuth]_vars

(* one caller sends request after request to the endpoint within and across
   the limiter's windows *)
RateRequests ==
  {Req(WatchedCaller, NoHeader, "query", "", f, i, FALSE, "", NoToken, "flat") :
     <<f, i>> \in {<<"me", 0>>, <<"post", 1>>}}

RateStep == \E r \in RateRequests : Request(r)
RateTick == Tick(graphqlLimiterWindow \div 2, graphqlLimiterWindow)
NextRate == RateStep \/ RateTick
SpecRate == Init /\ [][NextRate]_vars

(* administration: accounts log in and call the admin-only mutations on
   themselves and on others *)
AdminReq(h, field, id, flag, pw) ==
  Req(OtherCaller, h, "mutation", "", field, id, flag, pw, NoToken, "flat")

AdminRequests ==
  {AdminReq(NoHeader, "login", u, FALSE, "pw0") : u \in {1, 2}}
  \cup {AdminReq(h, "deleteUser", u, FALSE, "") : h \in StoreHeaders, u \in UserIds}
  \cup {AdminReq(h, "updateUserRole", u, b, "") :
          h \in StoreHeaders, u \in UserIds, b \in BOOLEAN}

AdminStep == \E r \in AdminRequests : Issues(r) /\ Request(r)
AdminTick == Tick(450, MaxTime)
NextAdmin == AdminStep \/ AdminTick
SpecAdmin == Init /\ [][NextAdmin]_vars

(* identity resolution: one account logs in and is later removed; requests to
   a public read and to me carry every kind of Authorization header *)
MalformedHeaders ==
  UNION {{<<t>>, <<"Basic", t>>, <<"Bearer", t, "x">>} : t \in AccessTokens}

IdentityHeaders ==
  {NoHeader} \cup {Bearer(t) : t \in tokens \cup {ForgedToken(3)}}
  \cup MalformedHeaders

IdentityRequests ==
  {r \in {Req(OtherCaller, NoHeader, "mutation", "", "login", 3, FALSE, "pw0",
              NoToken, "flat")} : now = 0}
  \cup {Req(OtherCaller, h, "query", "", f[1], f[2], FALSE, "", NoToken, "flat") :
          h \in IdentityHeaders, f \in {<<"post", 1>>, <<"me", 0>>}}

IdentityStep == \E r \in IdentityRequests : Issues(r) /\ Request(r)
IdentityDelete == \E u \in {1, 3} : DeleteUser(1, u)
IdentityTick == Tick(450, MaxTime)
NextIdentity == IdentityStep \/ IdentityDelete \/ IdentityTick
SpecIdentity == Init /\ [][NextIdentity]_vars

(* cache policy: a cached read and a failing read under the cachable name,
   operations on the skip list, a redis that fails on get or on set, stored
   values that get damaged, and lookups at the instant a lifetime ends *)
CachedRead == Req(OtherCaller, NoHeader, "query", "query", "post", 1, FALSE, "", NoToken, "flat")

PolicyRequests ==
  {[CachedRead EXCEPT !.fault = f] : f \in {"none", "get", "set"}}
  \cup {[CachedRead EXCEPT !.id = 2]}
  \cup {Req(OtherCaller, NoHeader, "query", "me", f[1], f[2], FALSE, "", NoToken, "flat") :
          f \in {<<"me", 0>>, <<"post", 1>>, <<"post", 2>>}}
  \cup {[Req(OtherCaller, NoHeader, "query", n, "post", 1, FALSE, "", NoToken, "flat")
           EXCEPT !.operationName = IF sent THEN n ELSE ""] :
          n \in {"me", "notifications"}, sent \in BOOLEAN}

PolicyStep == \E r \in PolicyRequests : Request(r)
PolicyTick == Tick(150, MaxCacheTime)
PolicyTickLate == TickLate(150, MaxCacheTime)
PolicyCorrupt == \E k \in DOMAIN cache : Corrupt(k)
NextPolicy == PolicyStep \/ PolicyTick \/ PolicyTickLate \/ PolicyCorrupt
SpecPolicy == Init /\ [][NextPolicy]_vars

(* payload sizes: the cached read returns content that is small, over the
   compression threshold, over the ceiling, or over it even when compressed *)
Payloads == {0, 2000, maxCacheSize + 200000, 2 * maxCacheSize}

SizeRequests ==
  {[CachedRead EXCEPT !.payload = b, !.random = x] : b \in Payloads, x \in BOOLEAN}
  \cup {[CachedRead EXCEPT !.shape = "leaf", !.payload = 2 * maxCacheSize]}

SizeStep == \E r \in SizeRequests : Request(r)
SizeTick == Tick(150, MaxCacheTime)
NextSize == SizeStep \/ SizeTick
SpecSize == Init /\ [][NextSize]_vars

(* mutations beside a cached read, and the explicit invalidation calls *)
FrameRequests ==
  {CachedRead}
  \cup {[Req(OtherCaller, NoHeader, "mutation", n, "login", 2, FALSE, "pw0", NoToken, "flat")
           EXCEPT !.fault = f] : n \in {"query", "Login", ""}, f \in {"none", "get"}}

FrameStep == \E r \in FrameRequests : Issues(r) /\ Request(r)
FrameTick == Tick(150, MaxCacheTime)
FrameInvalidate == \E n \in {"query", ""} : InvalidateOperation(n)
FrameClear == ClearAll
NextFrame == FrameStep \/ FrameTick \/ FrameInvalidate \/ FrameClear
SpecFrame == Init /\ [][NextFrame]_vars

(* the fields a client adds: a scalar, an object or a list with one scalar
   selected, the list with or without a limit *)
NewFields ==
  {ScalarField, ObjectField(<<ScalarField>>),
   ListField(NotGiven, <<ScalarField>>), ListField(1, <<ScalarField>>)}

InitialOperations ==
  {<<ScalarField>>, <<ListField(1, <<ScalarField>>)>>, <<ObjectField(<<ScalarField>>)>>}

(* the operation is sent again with one more field in one of its selection
   sets, and didResolveOperation computes its complexity *)
AddField(path, field) ==
  /\ CountFields(document, Len(document)) + CountFields(<<field>>, 1) <= MaxFields
  /\ Len(path) < MaxNesting
  /\ path # <<>> => NodeAt(document, path).kind # "scalar"
  /\ document' = AddAt(document, path, field)
  /\ estimate' = [edit |-> "addField", path |-> path,
                  before |-> QueryComplexity(document),
                  after |-> QueryComplexity(document')]
  /\ UNCHANGED <<storeVars, accounts, registering, applied, lastRun>>

(* the operation is sent again with a larger limit on one of its lists *)
RaiseLimit(path, limit) ==
  /\ NodeAt(document, path).kind = "list"
  /\ NodeAt(document, path).limit # NotGiven
  /\ limit > NodeAt(document, path).limit
  /\ document' = LimitAt(document, path, limit)
  /\ estimate' = [edit |-> "raiseLimit", path |-> path,
                  before |-> QueryComplexity(document),
                  after |-> QueryComplexity(document')]
  /\ UNCHANGED <<storeVars, accounts, registering, applied, lastRun>>

InitComplexity ==
  /\ InitStore
  /\ InitScripts
  /\ document \in InitialOperations
  /\ estimate = NoEstimate

ComplexityAdd == \E path \in {<<>>} \cup Paths(document), field \in NewFields : AddField(path, field)
ComplexityRaise == \E path \in Paths(document), limit \in 1..MaxLimit : RaiseLimit(path, limit)
NextComplexity == ComplexityAdd \/ ComplexityRaise
SpecComplexity == InitComplexity /\ [][NextComplexity]_vars

(* logins: existing accounts and an unknown email (NoUser) sign in with the right or
   a wrong password, while passwords change and sessions end *)
LoginRequests ==
  {AuthReq(NoHeader, "mutation", "login", u, pw) :
     u \in {2, NoUser}, pw \in Passwords}
  \cup {AuthReq(h, "mutation", "logout", 0, "") : h \in BearerHeaders}

LoginStep == \E r \in LoginRequests : Issues(r) /\ Request(r)
LoginChangePassword == \E cur \in Passwords, new \in Passwords : ChangePassword(2, cur, new)
LoginTick == Tick(450, MaxTime)
NextLogin == LoginStep \/ LoginChangePassword \/ LoginTick
SpecLogin == Init /\ [][NextLogin]_vars

(* post mutations: two accounts sign in and each, or nobody, asks to update,
   publish, unpublish or delete the seeded posts of the first *)
PostMutations == {"updatePost", "publishPost", "unpublishPost", "deletePost"}

OwnerRequests ==
  {StoreReq(NoHeader, "mutation", "login", u, FALSE, "pw0") : u \in {2, 3}}
  \cup {StoreReq(h, "mutation", f, p, b, "") :
          h \in StoreHeaders, f \in PostMutations, p \in {1, 2}, b \in {TRUE}}

OwnerStep == \E r \in OwnerRequests : Issues(r) /\ Request(r)
OwnerTick == Tick(450, MaxTime)
NextOwner == OwnerStep \/ OwnerTick
SpecOwner == Init /\ [][NextOwner]_vars

(* shared cache: the admin signs in and, like an anonymous caller, reads
   the seeded draft with an operation named "query"; no post changes *)
ShareRequests ==
  {r \in {StoreReq(NoHeader, "mutation", "login", 1, FALSE, "pw0")} : now = 0}
  \cup {Req(OtherCaller, h, "query", "query", "post", p, FALSE, "", NoToken, "flat") :
          h \in StoreHeaders, p \in {1, 2}}

ShareStep == \E r \in ShareRequests : Issues(r) /\ Request(r)
ShareTick == Tick(150, MaxCacheTime)
NextShare == ShareStep \/ ShareTick
SpecShare == Init /\ [][NextShare]_vars

(* listings: two accounts sign in, drafts are written, and posts is asked
   with every combination of its published and authorId arguments,
   anonymously and with each access token *)
PublishedArgs == {"undefined", "true", "false"}

ListingRequests ==
  {r \in {StoreReq(NoHeader, "mutation", "login", u, FALSE, "pw0") : u \in {2, 3}} : now = 0}
  \cup {StoreReq(h, "mutation", "createPost", 0, FALSE, "") : h \in BearerHeaders}
  \cup {[StoreReq(h, "query", "posts", a, FALSE, "") EXCEPT !.published = b] :
          h \in StoreHeaders, a \in {NoUser, 2, 3}, b \in PublishedArgs}

ListingStep == \E r \in ListingRequests : Issues(r) /\ Request(r)
ListingTick == Tick(450, MaxTime)
NextListing == ListingStep \/ ListingTick
SpecListing == Init /\ [][NextListing]_vars

(* refresh: an account signs in again and again, signs out, and every token
   a client holds is presented to the refreshToken mutation *)
RefreshRequests ==
  {AuthReq(NoHeader, "mutation", "login", 2, "pw0")}
  \cup {AuthReq(h, "mutation", "logout", 0, "") : h \in BearerHeaders}
  \cup {[AuthReq(NoHeader, "mutation", "refreshToken", 0, "") EXCEPT !.tok = t] :
          t \in tokens \cup {NoToken}}

RefreshStep == \E r \in RefreshRequests : Issues(r) /\ Request(r)
RefreshTick == Tick(450, MaxTime)
NextRefresh == RefreshStep \/ RefreshTick
SpecRefresh == Init /\ [][NextRefresh]_vars

(* comments and their posts: an author signs in, comments on the published
   post, posts are asked to be deleted, and the seed script is run again *)
OrphanRequests ==
  {r \in {StoreReq(NoHeader, "mutation", "login", 2, FALSE, "pw0")} : now = 0}
  \cup {StoreReq(h, "mutation", "createComment", 1, FALSE, "") : h \in StoreHeaders}
  \cup {StoreReq(h, "mutation", "deletePost", p, FALSE, "") :
          h \in StoreHeaders, p \in {1, 2}}
  \cup {StoreReq(h, "query", "comment", c, FALSE, "") :
          h \in StoreHeaders, c \in CommentIds}

OrphanStep == \E r \in OrphanRequests : Issues(r) /\ Request(r)
OrphanSeed == ClearDatabase
OrphanTick == Tick(450, MaxTime)
NextOrphan == OrphanStep \/ OrphanSeed \/ OrphanTick
SpecOrphan == Init /\ [][NextOrphan]_vars

(* registration: register mutations with a seeded or a new email, written in
   lower case or with capitals, and a seeded or a new username, interleaved
   between their check and their save *)
RegisterEmails ==
  {Email("john@example.com", FALSE), Email("new@example.com", FALSE),
   Email("new@example.com", TRUE)}

RegisterUsernames == {"john_doe", "newbie", "rookie"}

RegisterCheckStep ==
  \E p \in Registrations, email \in RegisterEmails, username \in RegisterUsernames :
    RegisterCheck(p, email, username)
RegisterSaveStep == \E p \in Registrations : RegisterSave(p)
NextRegister == RegisterCheckStep \/ RegisterSaveStep
SpecRegister == Init /\ [][NextRegister]_vars

(* migrations: the script is run up or down, with or without a target, and
   any one call of a run may throw *)
Targets == {NoTarget} \cup {migrations[i] : i \in DOMAIN migrations} \cup {Len(migrations) + 1}

Failures ==
  {NoFailure}
  \cup [step : {"up", "mark", "down", "unmark"},
        version : {migrations[i] : i \in DOMAIN migrations}]

MigrateUp == \E t \in Targets, f \in Failures : RunMigrations("up", t, f)
MigrateDown == \E t \in Targets, f \in Failures : RunMigrations("down", t, f)
NextMigrate == MigrateUp \/ MigrateDown
SpecMigrate == Init /\ [][NextMigrate]_vars

Next == NextCache \/ NextStore \/ NextAuth \/ NextRate \/ NextAdmin \/ NextIdentity
  \/ NextPolicy \/ NextSize \/ NextFrame \/ NextComplexity
  \/ NextLogin
  \/ NextOwner
  \/ NextShare
  \/ NextListing
  \/ NextRefresh
  \/ NextOrphan
  \/ NextRegister \/ NextMigrate
Spec == Init /\ [][Next]_vars

-----------------------------------------------------------------------------
(* Claims about the gate and the cache, under SpecCache *)

Handled == last.path = "graphql" /\ last.status = 200

(* C2: every operation whose nesting depth exceeds maximumDepth is rejected
   by the gate before any resolver runs, whatever its computed cost. *)
C2_DeepOperationRejected ==
  (Handled /\ queryDepth(last.req.shape) > maximumDepth)
    => (last.gate # "none" /\ ~last.resolverRan)

(* C3: a mutation is never answered from the response cache and its result
   is never written to it, whatever operationName it carries; its resolver
   runs on every request. *)
C3_MutationBypassesCache ==
  (Handled /\ last.req.kind = "mutation" /\ last.gate = "none")
    => (~last.fromCache /\ ~last.cacheWrote /\ last.resolverRan)

(* C4: whenever a response is served from the cache, its payload was
   produced by a live resolver execution less than ttl seconds earlier. *)
C4_StalenessBoundedByTtl ==
  (Handled /\ last.fromCache) => last.at - last.execAt < defaultTTL

(* C5: for a read operation not excluded by skipCache, when the same request
   is made twice, the first response is error-free and the second arrives
   less than ttl after the first, the second is served from the cache, is
   marked X-Cache: HIT and has the data of the first. *)
C5_SecondReadIsHit ==
  (/\ Handled
   /\ last.req.kind = "query"
   /\ ~skipCache(last.req.docName)
   /\ last.repeat
   /\ last.prevError = "none"
   /\ last.at - last.prevAt < defaultTTL)
    => (last.fromCache /\ last.xcache = "HIT" /\ last.data = last.prevData)

(* C9: when the computed complexity exceeds maximumComplexity the request
   ends with an error and, for that request, no resolver is executed, no
   cache lookup is made and no cache entry is written. *)
C9_CostRejectionShortCircuits ==
  (Handled /\ getComplexity(last.req.shape) > maximumComplexity)
    => (/\ last.error = "QUERY_COMPLEXITY_LIMIT_EXCEEDED"
        /\ ~last.resolverRan
        /\ ~last.cacheRead
        /\ ~last.cacheWrote
        /\ ~last.storeChanged)

(* a document over the limit, sent under the one operation name whose
   results the plugin would store, was rejected while an entry was cached *)
C9_Witness ==
  /\ Handled
  /\ last.req.shape = "wide"
  /\ last.req.operationName \in cachableOperations
  /\ last.error = "QUERY_COMPLEXITY_LIMIT_EXCEEDED"
  /\ DOMAIN cache # {}

-----------------------------------------------------------------------------
(* Claims about the resolvers, under SpecStore *)

IdentityOperations ==
  {"me", "users", "user", "myPosts", "createPost", "createComment",
   "deleteComment", "logout"}

(* C6: every operation that requires an identity (me, users, user, myPosts,
   createPost, createComment, deleteComment, logout), invoked with an
   anonymous context, fails with an UNAUTHENTICATED error and leaves the
   store unchanged *)
C6_AnonymousIsUnauthenticated ==
  (Handled /\ last.req.field \in IdentityOperations /\ ~last.isAuthenticated)
    => (last.error = "UNAUTHENTICATED" /\ ~last.storeChanged)

(* the post a read of post, comments or comment is about; 0 when there is none *)
ReadTarget ==
  IF last.req.field \in {"post", "comments"} THEN last.req.id
  ELSE IF last.req.field = "comment" /\ Comment_findById(last.req.id)
       THEN comments[last.req.id].post
  ELSE 0

(* the last request read an unpublished post, or something of it, for a
   caller who is anonymous or neither its author nor an ADMIN *)
DraftReadByStranger ==
  /\ Handled
  /\ last.req.field \in {"post", "comments", "comment"}
  /\ Post_findById(ReadTarget)
  /\ ~posts[ReadTarget].published
  /\ \/ ~last.isAuthenticated
     \/ /\ last.user # posts[ReadTarget].author
        /\ users[last.user].role # ADMIN

MissingPostError == postQuery(0, AnonymousContext).error
MissingCommentError == commentQuery(0, AnonymousContext).error

(* C10: for an unpublished post and a caller who is anonymous or neither its
   author nor an ADMIN, post, comments and comment fail with the not-found
   error they give for a target that does not exist (a nonexistent post for
   post and comments; for comment, which is addressed by a comment id, a
   nonexistent comment); none returns the post or its comments and none
   reports FORBIDDEN *)
C10_HiddenAsNotFound ==
  DraftReadByStranger
    => /\ last.data = Null
       /\ last.error # "FORBIDDEN"
       /\ last.error = IF last.req.field = "comment" THEN MissingCommentError
                       ELSE MissingPostError

C10_Witness ==
  /\ DraftReadByStranger
  /\ last.req.field = "comment"
  /\ last.isAuthenticated
  /\ last.error = "COMMENT_NOT_FOUND"

-----------------------------------------------------------------------------
(* Claims about sessions and tokens, under SpecAuth *)

(* the token in the Authorization header of the last request *)
Presented == IF last.req.header = NoHeader THEN NoToken ELSE last.req.header[2]

(* C1: after a logout or password change by user u, a later createContext
   call that presents an access token issued to u before that revocation and
   not yet expired yields an unauthenticated context with no user *)
C1_RevokedTokenIsAnonymous ==
  (/\ Handled /\ last.req.field = "me" /\ last.contextRan
   /\ Presented.gen = "access" /\ Presented.svc = "JWTUtils"
   /\ User_findById(Presented.userId)
   /\ users[Presented.userId].revokedAt # NoExp
   /\ Presented.iat < users[Presented.userId].revokedAt
   /\ last.at < Presented.exp)
    => (~last.isAuthenticated /\ last.user = NoUser)

AccessPaths == {"graphql", "authMiddleware", "TokenService.verifyAccessToken"}

(* C7: a token issued for a purpose other than access (refresh,
   password_reset, email_verification, api_key) is accepted by no
   access-verification path: createContext through JWTUtils.verifyAccessToken,
   TokenService.verifyAccessToken, authMiddleware *)
C7_OnlyAccessTokensAuthenticate ==
  (/\ last.path \in AccessPaths
   /\ last.req.header # NoHeader
   /\ Presented.gen \in {"refresh", "password_reset", "email_verification", "api_key"})
    => ~last.isAuthenticated

-----------------------------------------------------------------------------
(* Claims about the limiter, under SpecRate *)

(* C8: a caller that has used up its budget for the current window is
   rejected on its next request to the endpoint, before createContext runs *)
C8_OverBudgetRejectedFirst ==
  (last.path = "graphql" /\ last.overBudget)
    => (last.status = 429 /\ ~last.contextRan)

-----------------------------------------------------------------------------
(* Claims about administration, under SpecAdmin *)

AdminOperations == {"deleteUser", "updateUserRole"}

CallerIsAdmin == last.isAuthenticated /\ users[last.user].role = ADMIN

(* C11: deleteUser and updateUserRole take effect exactly when the caller is
   authenticated with role ADMIN and targets another existing user: a caller
   without the ADMIN role is rejected with the store unchanged, and an ADMIN
   caller targeting a different existing user succeeds *)
C11_AdminMutationsTakeEffect ==
  (Handled /\ last.req.field \in AdminOperations)
    => /\ ~CallerIsAdmin => (last.error # "none" /\ ~last.storeChanged)
       /\ (/\ CallerIsAdmin
           /\ last.req.id # last.user
           /\ (User_findById(last.req.id) \/ last.storeChanged))
            => last.error = "none"

-----------------------------------------------------------------------------
(* Claims about identity resolution, under SpecIdentity *)

(* the header of the last request is absent, not of the form Bearer <token>,
   carries a token that fails verification, or names a removed account *)
NoValidCredential ==
  LET h == last.req.header
  IN \/ h = NoHeader
     \/ Len(h) # 2
     \/ h[1] # "Bearer"
     \/ ~JWTUtils_verifyAccessToken(h[2])
     \/ ~User_findById(h[2].userId)

(* C12: createContext returns an unauthenticated context and raises no error
   whenever the Authorization header is absent, is not of the form
   Bearer <token>, carries a token that fails verification, or names a subject
   that no longer exists; the request still reaches public resolvers *)
C12_IdentityNeverFails ==
  (last.path = "graphql" /\ last.at = now /\ NoValidCredential)
    => /\ last.status = 200
       /\ last.contextRan
       /\ ~last.isAuthenticated
       /\ last.user = NoUser
       /\ last.req.field = "post"
            => (last.resolverRan /\ last.error = "none"
                /\ last.data = PostData(last.req.id))

(* the token of a removed account is presented to a public read *)
C12_Witness ==
  /\ last.path = "graphql" /\ last.at = now
  /\ last.req.header # NoHeader
  /\ Len(last.req.header) = 2
  /\ JWTUtils_verifyAccessToken(last.req.header[2])
  /\ ~User_findById(last.req.header[2].userId)
  /\ last.req.field = "post"
  /\ last.data = PostData(1)

-----------------------------------------------------------------------------
(* Claims about the cache policy, under SpecPolicy *)

(* C13: in every reachable state no entry in the cache holds a response that
   contains errors *)
C13_NoErrorsCached ==
  \A k \in DOMAIN cache : cache[k].data.error = "none"

(* a read under the cachable name failed in its resolver and left no entry *)
C13_Witness ==
  /\ Handled
  /\ last.req.operationName \in cachableOperations
  /\ last.resolverRan
  /\ last.error = "POST_NOT_FOUND"
  /\ generateCacheKey(last.req) \notin DOMAIN cache

(* C14: for an operation whose name is on the skip list the cache is neither
   read nor written, in any sequence of requests and whether or not the
   operation succeeds *)
C14_SkipListBypassesCache ==
  (Handled /\ last.req.docName \in skipCacheList)
    => (~last.cacheRead /\ ~last.fromCache /\ ~last.cacheWrote /\ last.resolverRan)

(* an operation named me is repeated, executes again and fails, while the
   cache holds an entry of another operation *)
C14_Witness ==
  /\ Handled
  /\ last.req.docName = "me"
  /\ last.req.operationName = "me"
  /\ last.repeat
  /\ last.error # "none"
  /\ DOMAIN cache # {}

(* the lookup of the last request reached redis and got a readable answer *)
CleanLookup ==
  Handled /\ last.cacheRead /\ last.req.fault # "get" /\ ~last.entryCorrupt

(* C15: a lookup is a hit iff an entry exists for the fingerprint and
   now - timestamp < ttl; when now - timestamp >= ttl it behaves like a miss
   and the operation is executed live, even if redis still holds the entry *)
C15_HitIffFresh ==
  CleanLookup
    => /\ last.fromCache <=> (last.entryFound /\ last.entryAge < defaultTTL)
       /\ ~last.fromCache => (last.resolverRan /\ last.execAt = last.at)

(* redis still held an entry of age ttl and the operation ran live *)
C15_Witness ==
  /\ CleanLookup
  /\ last.entryFound
  /\ last.entryAge >= defaultTTL
  /\ last.resolverRan

(* the response of the last request is what its resolver yields *)
LiveResult ==
  LET live == Resolve(last.req, createContext(last.req.header))
  IN last.resolverRan /\ ~last.fromCache
     /\ last.data = live.data /\ last.error = live.error

CacheFailedOnRead ==
  Handled /\ last.cacheRead /\ (last.req.fault = "get" \/ last.entryCorrupt)

CacheFailedOnWrite == Handled /\ last.req.fault = "set"

(* C16 as stated: if redis fails on get or on set, or a stored value cannot
   be decoded, the request is answered by live execution with the result it
   has when the cache is empty, never by an error response *)
C16_FailureMeansLiveExecution ==
  (CacheFailedOnRead \/ CacheFailedOnWrite) => LiveResult

(* C16 amended: a failed get or an undecodable value makes the request
   execute live with the result it has when the cache is empty; a failed set
   leaves the response as it was, executed live or, when the lookup was a
   hit, served from the cache, and stores nothing; none of the failures
   produces an error response *)
C16_FailureDegradesToMiss ==
  /\ CacheFailedOnRead => LiveResult
  /\ CacheFailedOnWrite
       => /\ ~last.cacheWrote
          /\ last.status = 200
          /\ IF last.fromCache THEN last.error = "none" ELSE LiveResult

(* an undecodable value was found and the read executed live *)
C16_Witness ==
  /\ Handled /\ last.cacheRead /\ last.entryCorrupt
  /\ last.resolverRan
  /\ last.error = "none"

-----------------------------------------------------------------------------
(* Claims about stored sizes, under SpecSize *)

(* the length of the string stored for an entry *)
StoredLength(entry) ==
  IF entry.compressed THEN Base64Length(GzipSync(entry.data))
  ELSE SerializedLength(entry.data)

(* C17: no value whose length exceeds maxCacheSize is ever written: a
   payload over the ceiling is stored only in compressed form and only if
   that form is within the ceiling *)
C17_StoredWithinCeiling ==
  \A k \in DOMAIN cache :
    /\ StoredLength(cache[k]) <= maxCacheSize
    /\ SerializedLength(cache[k].data) > maxCacheSize => cache[k].compressed

(* a payload over the ceiling is held compressed, and one that stays over
   the ceiling when compressed was answered without a write *)
C17_Witness ==
  /\ Handled
  /\ last.req.payload = 2 * maxCacheSize
  /\ last.error = "none"
  /\ ~last.cacheWrote
  /\ \E k \in DOMAIN cache :
       SerializedLength(cache[k].data) > maxCacheSize /\ cache[k].compressed

-----------------------------------------------------------------------------
(* Claims about mutations and the cache, under SpecFrame *)

(* C18: executing a mutation removes or alters no existing cache entry *)
C18_MutationLeavesEntries ==
  (Handled /\ last.req.kind = "mutation" /\ last.resolverRan)
    => ~last.overwrote

-----------------------------------------------------------------------------
(* Claims about the computed complexity, under SpecComplexity *)

(* the list size the estimate is to use: the limit when the document gives
   one, the configured listFactor otherwise *)
ExpectedListSize(field) ==
  IF field.limit = NotGiven THEN listFactor ELSE field.limit

EditedField == NodeAt(document, estimate.path)

(* C19: the cost of a field that returns a list is the cost of its
   sub-selection multiplied by the expected list size, and for a non-empty
   sub-selection a larger limit gives a strictly larger cost of the
   operation *)
C19_ListCostScalesWithSize ==
  estimate.edit = "raiseLimit" =>
    LET field == EditedField
        sub == QueryComplexity(field.selectionSet)
    IN /\ QueryComplexity(<<field>>) = sub * ExpectedListSize(field)
       /\ (sub > 0 => estimate.after > estimate.before)

(* C20: the complexity computed after a field is added to a selection set,
   or after a limit argument is raised, is not below the complexity computed
   before *)
C20_CostIsMonotone ==
  estimate.edit \in {"addField", "raiseLimit"} => estimate.after >= estimate.before

(* a field was added below the top of an operation that holds a list with a
   raised limit, and the complexity grew *)
C20_Witness ==
  /\ estimate.edit = "addField"
  /\ estimate.path # <<>>
  /\ estimate.after > estimate.before
  /\ \E path \in Paths(document) : NodeAt(document, path).limit > 1

-----------------------------------------------------------------------------
(* Claims about login, under SpecLogin *)

(* the step is a handled login for an existing account whose stored hash is
   not the hash of the password sent *)
WrongPasswordLogin ==
  /\ last'.path = "graphql" /\ last'.status = 200
  /\ last'.req.field = "login"
  /\ User_findById(last'.req.id)
  /\ users[last'.req.id].password # Hash(last'.req.pw)

(* C21: login with the email of an existing user and a wrong password fails
   with INVALID_CREDENTIALS and no data, issues no token and leaves the
   user's stored refresh token as it was *)
C21_WrongPasswordLoginFails ==
  [][WrongPasswordLogin =>
       /\ last'.error = "INVALID_CREDENTIALS"
       /\ last'.data = Null
       /\ tokens' = tokens
       /\ users'[last'.req.id].refreshToken = users[last'.req.id].refreshToken]_vars

(* a login was refused for an account that holds the refresh token of an
   earlier, successful login *)
C21_Witness ==
  /\ Handled
  /\ last.req.field = "login"
  /\ last.error = "INVALID_CREDENTIALS"
  /\ User_findById(last.req.id)
  /\ users[last.req.id].password # Hash(last.req.pw)
  /\ users[last.req.id].refreshToken # NoToken

-----------------------------------------------------------------------------
(* Claims about post mutations, under SpecOwner *)

(* the last request was a post mutation by an authenticated caller on a post
   that exists *)
PostMutationOnPost ==
  /\ Handled
  /\ last.req.field \in PostMutations
  /\ last.isAuthenticated
  /\ Post_findById(last.req.id)

(* C22: updatePost, publishPost, unpublishPost and deletePost succeed when
   the authenticated caller is the author of the post, and fail, leaving the
   post unchanged, when the caller is neither the author nor an admin *)
C22_PostMutationsForOwnerOnly ==
  PostMutationOnPost =>
    IF posts[last.req.id].author = last.user
    THEN last.error = "none"
    ELSE users[last.user].role # ADMIN
           => (last.error # "none" /\ ~last.storeChanged)

-----------------------------------------------------------------------------
(* Claims about the cache and identities, under SpecShare *)

(* C23: a response served from the cache is the response live execution
   gives the identity of the request it is served to; under SpecShare no
   post changes, so a cached response differs from the live one only through
   the identity it was computed for *)
C23_CacheHitMatchesCallerIdentity ==
  (Handled /\ last.fromCache) =>
    LET live == Resolve(last.req, createContext(last.req.header))
    IN last.data = live.data /\ last.error = live.error

-----------------------------------------------------------------------------
(* Claims about listings, under SpecListing *)

(* C24: every post the posts query returns is published or written by the
   caller, for every combination of the published and authorId arguments and
   for anonymous and authenticated callers *)
C24_NoForeignDraftListed ==
  (Handled /\ last.req.field = "posts" /\ last.error = "none") =>
    \A p \in last.data[2] :
      posts[p].published \/ (last.isAuthenticated /\ posts[p].author = last.user)

-----------------------------------------------------------------------------
(* Claims about token refresh, under SpecRefresh *)

(* the token is the refresh token stored for its subject *)
StoredRefreshToken(t) ==
  /\ t.gen = "refresh" /\ t.svc = "JWTUtils"
  /\ User_findById(t.userId)
  /\ users[t.userId].refreshToken = t

(* C25: the refreshToken mutation returns a new access token when the token
   presented is the refresh token stored for its subject, and otherwise, in
   particular after a logout or after a later login stored another token,
   fails with INVALID_REFRESH_TOKEN and issues nothing *)
C25_OnlyStoredRefreshTokenRefreshes ==
  [][(/\ last'.path = "graphql" /\ last'.status = 200
      /\ last'.req.field = "refreshToken" /\ last'.at = now)
       => IF StoredRefreshToken(last'.req.tok)
          THEN /\ last'.error = "none"
               /\ last'.data = <<"refreshed", JWTUtils_generateAccessToken(last'.req.tok.userId)>>
          ELSE /\ last'.error = "INVALID_REFRESH_TOKEN"
               /\ last'.data = Null
               /\ tokens' = tokens]_vars

(* a correctly signed, unexpired refresh token was refused after a later
   login had stored another one *)
C25_Witness ==
  /\ Handled
  /\ last.req.field = "refreshToken"
  /\ last.error = "INVALID_REFRESH_TOKEN"
  /\ last.req.tok.gen = "refresh"
  /\ JWTUtils_verifyRefreshToken(last.req.tok)
  /\ User_findById(last.req.tok.userId)
  /\ users[last.req.tok.userId].refreshToken \notin {NoToken, last.req.tok}

-----------------------------------------------------------------------------
(* Claims about explicit invalidation, under SpecFrame *)

(* C26: once CacheInvalidator.invalidateOperation(name) has returned, the
   cache holds no entry that was stored for a request with that operation
   name *)
C26_InvalidateOperationRemovesEntries ==
  last.path = "CacheInvalidator.invalidateOperation" =>
    \A key \in DOMAIN cache : key.operationName # last.req.operationName

-----------------------------------------------------------------------------
(* Claims about drafts and their authors, under SpecStore *)

(* C27: post(id) returns an unpublished post, not an error, when the caller
   is authenticated as its author *)
C27_AuthorReadsOwnDraft ==
  (/\ Handled /\ last.req.field = "post" /\ last.isAuthenticated
   /\ Post_findById(last.req.id)
   /\ ~posts[last.req.id].published
   /\ posts[last.req.id].author = last.user)
    => (last.error = "none" /\ last.data = PostData(last.req.id))

-----------------------------------------------------------------------------
(* Claims about comments and their posts, under SpecOrphan *)

(* C29: every comment in the store references a post that exists *)
C29_CommentsReferenceExistingPosts ==
  \A c \in CommentIds :
    comments[c].state = "live" => Post_findById(comments[c].post)

-----------------------------------------------------------------------------
(* Claims about registration, under SpecRegister *)

Succeeded(p) == registering[p].pc = "done" /\ registering[p].error = "none"

SameIdentity(p, q) ==
  \/ ToLowerCase(registering[p].email) = ToLowerCase(registering[q].email)
  \/ registering[p].username = registering[q].username

(* C28: no two users share an email or a username; of two registrations
   with the same email or username that both passed the existence check at
   most one creates a user, and the users created are exactly those of the
   registrations that succeeded, so a failed one leaves nothing behind *)
C28_UniqueEmailAndUsername ==
  /\ \A i, j \in DOMAIN accounts :
       i # j => /\ accounts[i].email # accounts[j].email
                /\ accounts[i].username # accounts[j].username
  /\ \A p, q \in Registrations :
       p # q /\ SameIdentity(p, q) => ~(Succeeded(p) /\ Succeeded(q))
  /\ Len(accounts) = Len(SeedAccounts) + Cardinality({p \in Registrations : Succeeded(p)})

(* two registrations with the same email, one written with capitals, both
   passed the check; one created the user and the other failed on the save *)
C28_Witness ==
  \E p, q \in Registrations :
    /\ p # q
    /\ registering[p].passed /\ registering[q].passed
    /\ registering[p].email # registering[q].email
    /\ ToLowerCase(registering[p].email) = ToLowerCase(registering[q].email)
    /\ Succeeded(p)
    /\ registering[q].pc = "done" /\ registering[q].error = "REGISTRATION_FAILED"

-----------------------------------------------------------------------------
(* Claims about the migration script, under SpecMigrate *)

Prefix(n) == {migrations[i] : i \in 1..n}

Ascending(s) == \A i, j \in DOMAIN s : i < j => s[i] < s[j]

Descending(s) == \A i, j \in DOMAIN s : i < j => s[i] > s[j]

UpTo(targetVersion) ==
  {migrations[i] : i \in {k \in DOMAIN migrations :
                            targetVersion = NoTarget \/ migrations[k] <= targetVersion}}

(* C30: the applied versions are a prefix of the migration list; an up run
   records versions in ascending order, none beyond the target and none
   whose up() did not complete, and when it is not aborted it leaves every
   version up to the target applied; a down run reverts in descending order,
   keeps every version at or below the target, and when it is not aborted
   it leaves exactly those *)
C30_AppliedIsPrefix ==
  /\ \E n \in 0..Len(migrations) : applied = Prefix(n)
  /\ lastRun.direction = "up" =>
       /\ Ascending(lastRun.ran)
       /\ lastRun.before \subseteq applied
       /\ \A v \in applied \ lastRun.before :
            /\ \E i \in DOMAIN lastRun.ran : lastRun.ran[i] = v
            /\ v \in UpTo(lastRun.targetVersion)
       /\ ~lastRun.failed => applied = lastRun.before \cup UpTo(lastRun.targetVersion)
  /\ lastRun.direction = "down" =>
       /\ Descending(lastRun.ran)
       /\ applied \subseteq lastRun.before
       /\ \A v \in lastRun.before \ applied :
            /\ \E i \in DOMAIN lastRun.ran : lastRun.ran[i] = v
            /\ lastRun.targetVersion = NoTarget \/ v > lastRun.targetVersion
       /\ ~lastRun.failed =>
            applied = {v \in lastRun.before :
                         lastRun.targetVersion # NoTarget /\ v <= lastRun.targetVersion}

(* a down run with a target reverted two versions of a longer prefix and
   stopped at the target *)
C30_Witness ==
  /\ lastRun.direction = "down"
  /\ lastRun.targetVersion # NoTarget
  /\ ~lastRun.failed
  /\ Len(lastRun.ran) = 2
  /\ applied = Prefix(2)

====
